---- MODULE Spec2Model ----
(***************************************************************************)
(* LinkedIn lead pipeline: LinkedInScraper (Scraper.py), LinkedInMessenger *)
(* (Messanger.py) and the orchestrating main (runPipline.py).              *)
(*                                                                         *)
(* The browser (selenium) and the file system are the environment: every   *)
(* driver command and every bounded wait either succeeds or raises, and    *)
(* the page content (buttons, cards) is chosen by the environment.  The    *)
(* Python control flow around those calls (try/except/finally, loops,      *)
(* early returns) is what the actions translate.                           *)
(*                                                                         *)
(* A text is a sequence of symbols.  A symbol is a single character where  *)
(* the code looks inside the text (names: split, strip, substring), and a  *)
(* whole literal where it does not (URLs, status labels, templates).       *)
(***************************************************************************)
EXTENDS Integers, Sequences, FiniteSets, TLC

VARIABLES
    pc,         \* control position of main / LinkedInScraper.run / LinkedInMessenger.run
    exc,        \* exception in flight ("none" when there is none)
    files,      \* file system: path -> [exists, cols, rows]
    writes,     \* path -> number of completed to_csv calls on it (history)
    sDriver,    \* LinkedInScraper.driver and its session: None / live / quit / quitfailed
    profiles,   \* LinkedInScraper.profiles
    results,    \* LinkedInScraper.results
    page,       \* loop variable of scrape_search_pages
    sIdx,       \* position of the for loop of send_connection_requests
    csvPath,    \* value returned by run_scraper_stage
    mDriver,    \* LinkedInMessenger.driver and its session
    mInput,     \* MessengerConfig.input_csv_path
    messages,   \* MessengerConfig.messages
    df,         \* the DataFrame of LinkedInMessenger.run
    mResults,   \* LinkedInMessenger._results
    mIdx,       \* position of the for loop of LinkedInMessenger.run
    mAttempts,  \* calls of send_message_to_profile: <<url, name, returned status>> (history)
    last,       \* what the last handler did: steps done, failing step, exception, status
    onPage,     \* the page the last handler met and the button it clicked (kept by the
                \* per-record specification SpecRecord only)
    slept       \* the sleeps between the end of the last record's attempt and the next
                \* iteration of the loop, each as the interval its duration lies in (s)

vars == <<pc, exc, files, writes, sDriver, profiles, results, page, sIdx,
          csvPath, mDriver, mInput, messages, df, mResults, mIdx, mAttempts, last,
          onPage, slept>>

scraperVars == <<sDriver, profiles, results, page, sIdx, csvPath>>

messengerVars == <<mDriver, mInput, messages, df, mResults, mIdx, mAttempts>>

pageVars == <<onPage, slept>>

-----------------------------------------------------------------------------
(* Bounds of the model *)

MaxProfiles == 2

MaxRows == 3

MaxButtons == 2

-----------------------------------------------------------------------------
(* Program constants *)

StartPage == 1

EndPage == 2

MinDelay == 2

MaxDelay == 4

SentSleep == 1

ScraperOut == "linkedin_leads646.csv"

MessengerOut == "linkedin_leads24_with_results.csv"

StandaloneIn == "linkedin_leads24.csv"

Paths == {ScraperOut, MessengerOut, StandaloneIn}

ConnectionRequestSent == <<"Connection request sent">>

RequestSent == <<"Request Sent">>

FollowOnly == <<"Not connected - follow only">>

NoInviteOption == <<"No invite option">>

ErrorElementMissing == <<"Error - element missing">>

ErrorUnexpected == <<"Error - unexpected">>

MessageSent == <<"Message Sent">>

Failed == <<"Failed">>

ConnectionLabels ==
    {ConnectionRequestSent, RequestSent, FollowOnly, NoInviteOption,
     ErrorElementMissing, ErrorUnexpected}

ResultLabels == {MessageSent, Failed}

ScraperColumns == {"Name", "Title", "LinkedIn URL", "Connection"}

PipelineMessages ==
    << <<"Hi ", "{first}", ", 1">>, <<"Hey ", "{first}", ", 2">>,
       <<"Hi ", "{first}", ", 3">>, <<"Hello ", "{first}", ", 4">> >>

-----------------------------------------------------------------------------
(* Exceptions the environment raises *)

CmdExc == {"TimeoutException", "NoSuchElementException", "WebDriverException"}

WaitExc == {"TimeoutException", "WebDriverException"}

-----------------------------------------------------------------------------
(* Texts *)

EmptyText == <<>>

NaN == <<"<float nan>">>

NanText == <<"n", "a", "n">>

NaValues == {EmptyText, <<"N/A">>}

Range(s) == {s[i] : i \in 1..Len(s)}

BoundedSeq(S, n) == UNION {[1..k -> S] : k \in 0..n}

Contains(hay, needle) ==
    \E i \in 0..(Len(hay) - Len(needle)) :
        SubSeq(hay, i + 1, i + Len(needle)) = needle

RECURSIVE LStrip(_)
LStrip(s) == IF s # <<>> /\ Head(s) = " " THEN LStrip(Tail(s)) ELSE s

RECURSIVE FirstToken(_)
FirstToken(s) ==
    IF s = <<>> \/ Head(s) = " " THEN <<>> ELSE <<Head(s)>> \o FirstToken(Tail(s))

FirstName(name) ==
    IF LStrip(name) # <<>> THEN FirstToken(LStrip(name)) ELSE EmptyText

RECURSIVE Format(_, _)
Format(template, first) ==
    IF template = <<>> THEN <<>>
    ELSE (IF Head(template) = "{first}" THEN first ELSE <<Head(template)>>)
         \o Format(Tail(template), first)

Str(cell) == IF cell = NaN THEN NanText ELSE cell

-----------------------------------------------------------------------------
(* CSV files and DataFrames (pandas) *)

NoFile == [exists |-> FALSE, cols |-> {}, rows |-> <<>>]

CsvFile(cols, rows) == [exists |-> TRUE, cols |-> cols, rows |-> rows]

EmptyFrame == [cols |-> {}, rows |-> <<>>]

ReadCell(cell) == IF cell \in NaValues THEN NaN ELSE cell

WriteCell(cell) == IF cell = NaN THEN EmptyText ELSE cell

ReadCsv(file) ==
    [cols |-> file.cols,
     rows |-> [i \in 1..Len(file.rows) |->
                 [c \in file.cols |-> ReadCell(file.rows[i][c])]]]

ToCsv(frame) ==
    CsvFile(frame.cols,
            [i \in 1..Len(frame.rows) |->
               [c \in frame.cols |-> WriteCell(frame.rows[i][c])]])

\* Variant: the column check joined with "and" (only a file lacking both columns fails)
SchemaOkBoth(cols) == ~("LinkedIn URL" \notin cols /\ "Name" \notin cols)

SchemaOk(cols) == ~("LinkedIn URL" \notin cols \/ "Name" \notin cols)

IsNotNa(row) == row["LinkedIn URL"] # NaN

\* a row that is not skipped by the variant below
IsLeadWithInvite(row) ==
    /\ row["LinkedIn URL"] # NaN
    /\ ("Connection" \in DOMAIN row => row["Connection"] # NoInviteOption)

\* Variant: rows labelled 'No invite option' by the scraper are dropped as well
DropNaAndNoInvite(rows) == SelectSeq(rows, IsLeadWithInvite)

\* Variant: no dropna
DropNaNothing(rows) == rows

DropNa(rows) == SelectSeq(rows, IsNotNa)

WithResult(frame, res) ==
    [cols |-> frame.cols \cup {"Result"},
     rows |-> [i \in 1..Len(frame.rows) |->
                 [c \in frame.cols \cup {"Result"} |->
                    IF c = "Result" THEN res[i] ELSE frame.rows[i][c]]]]

\* Variant: drop_duplicates(keep="last"): a row is dropped when its URL comes again later
RECURSIVE KeepLast(_, _)
KeepLast(rows, seen) ==
    IF rows = <<>> THEN <<>>
    ELSE IF \E i \in 2..Len(rows) : rows[i]["LinkedIn URL"] = Head(rows)["LinkedIn URL"]
         THEN KeepLast(Tail(rows), seen)
         ELSE <<Head(rows)>> \o KeepLast(Tail(rows), seen)

RECURSIVE KeepFirst(_, _)
KeepFirst(rows, seen) ==
    IF rows = <<>> THEN <<>>
    ELSE IF Head(rows)["LinkedIn URL"] \in seen
         THEN KeepFirst(Tail(rows), seen)
         ELSE <<Head(rows)>>
              \o KeepFirst(Tail(rows), seen \cup {Head(rows)["LinkedIn URL"]})

DropDuplicates(rows) == KeepFirst(rows, {})

-----------------------------------------------------------------------------
(* What one handler did: the steps it completed, the step that failed and   *)
(* with what, the exception it let escape, the status it produced.          *)

\* time.sleep(random.uniform(lo, hi)): a sleep of some duration from lo to hi seconds
Uniform(lo, hi) == [lo |-> lo, hi |-> hi]

\* time.sleep(secs)
Fixed(secs) == [lo |-> secs, hi |-> secs]

\* no page met, no button clicked
NoPage == [labels |-> <<>>, pending |-> FALSE, follow |-> FALSE, buttons |-> <<>>,
           clicked |-> 0]

Nothing == [status |-> EmptyText, exc |-> "none", steps |-> <<>>,
         failStep |-> "none", failExc |-> "none", typed |-> EmptyText]

Completed(status, steps, typed) ==
    [status |-> status, exc |-> "none", steps |-> steps,
     failStep |-> "none", failExc |-> "none", typed |-> typed]

Caught(status, steps, failStep, failExc, typed) ==
    [status |-> status, exc |-> "none", steps |-> steps,
     failStep |-> failStep, failExc |-> failExc, typed |-> typed]

Raised(e, steps, failStep) ==
    [status |-> EmptyText, exc |-> e, steps |-> steps,
     failStep |-> failStep, failExc |-> e, typed |-> EmptyText]

-----------------------------------------------------------------------------
(* LinkedInMessenger *)

ButtonStates == [displayed : BOOLEAN, enabled : BOOLEAN]

ButtonLists == BoundedSeq(ButtonStates, MaxButtons)

\* for b in buttons: if b.is_displayed() and b.is_enabled(): click; break
MessageButtonClicked(buttons) ==
    \E i \in 1..Len(buttons) : buttons[i].displayed /\ buttons[i].enabled

\* send_message_to_profile, part 3: click Send and wait for the box to clear
SendAndConfirm(steps, typed) ==
    {Caught(Failed, steps, "wait_send_button", e, typed) : e \in WaitExc}
    \cup {Caught(Failed, steps \o <<"wait_send_button">>, "click_send", e, typed) :
            e \in CmdExc}
    \cup {Caught(Failed, steps \o <<"wait_send_button", "click_send">>,
                 "wait_box_cleared", e, typed) : e \in WaitExc}
    \cup {Completed(MessageSent,
                    steps \o <<"wait_send_button", "click_send", "wait_box_cleared">>,
                    typed)}

\* Variant: the check for an empty list of templates is missing, so random.choice is
\* called on it and raises IndexError, which the except clause turns into 'Failed'
TypeMessageNoGuard(steps, first, msgs) ==
    {Caught(Failed, steps, "wait_input_box", e, EmptyText) : e \in WaitExc}
    \cup (IF msgs = <<>>
          THEN {Caught(Failed, steps \o <<"wait_input_box">>, "choice", "IndexError",
                       EmptyText)}
          ELSE UNION {
                 LET msg == Format(template, first)
                     chosen == steps \o <<"wait_input_box", "choice">>
                 IN  {Caught(Failed, chosen, "clear", e, EmptyText) : e \in CmdExc}
                     \cup {Caught(Failed, chosen \o <<"clear">>, "send_keys", e,
                                  EmptyText) : e \in CmdExc}
                     \cup SendAndConfirm(chosen \o <<"clear", "send_keys">>, msg)
                 : template \in Range(msgs)})

\* send_message_to_profile, part 2: find the compose box and type the message
TypeMessage(steps, first, msgs) ==
    {Caught(Failed, steps, "wait_input_box", e, EmptyText) : e \in WaitExc}
    \cup (IF msgs = <<>>
          THEN {Caught(Failed, steps \o <<"wait_input_box">>, "no_messages", "none",
                       EmptyText)}
          ELSE UNION {
                 LET msg == Format(template, first)
                     chosen == steps \o <<"wait_input_box", "choice">>
                 IN  {Caught(Failed, chosen, "clear", e, EmptyText) : e \in CmdExc}
                     \cup {Caught(Failed, chosen \o <<"clear">>, "send_keys", e,
                                  EmptyText) : e \in CmdExc}
                     \cup SendAndConfirm(chosen \o <<"clear", "send_keys">>, msg)
                 : template \in Range(msgs)})

\* send_message_to_profile, part 1: open the message window.  The page shows any
\* list of Message buttons; an outcome is possible when some list leads to it.
OpenMessage(steps, first, msgs) ==
    LET found == steps \o <<"find_message_buttons">>
    IN  {Caught(Failed, steps, "find_message_buttons", e, EmptyText) : e \in CmdExc}
        \cup (IF \E buttons \in ButtonLists : buttons # <<>>
              THEN {Caught(Failed, found, "is_displayed", e, EmptyText) : e \in CmdExc}
              ELSE {})
        \cup (IF \E buttons \in ButtonLists : MessageButtonClicked(buttons)
              THEN {Caught(Failed, found, "click_message", e, EmptyText) : e \in CmdExc}
                   \cup TypeMessage(found \o <<"click_message">>, first, msgs)
              ELSE {})
        \cup (IF \E buttons \in ButtonLists : ~MessageButtonClicked(buttons)
              THEN {Caught(Failed, found, "no_message_button", "none", EmptyText)}
              ELSE {})

\* send_message_to_profile(profile_url, name): every way the call can end
SendMessageToProfile(profile_url, name, msgs) ==
    {Raised(e, <<>>, "get_profile") : e \in CmdExc}
    \cup OpenMessage(<<"get_profile">>, FirstName(name), msgs)

\* Variant: the messenger's login catches a timeout of the wait for the feed, as the
\* scraper's login does
MessengerLoginLenient ==
    {Raised(e, <<>>, "get_login") : e \in CmdExc}
    \cup {Raised(e, <<"get_login">>, "wait_username") : e \in WaitExc}
    \cup {Raised(e, <<"get_login", "wait_username">>, "find_password") : e \in CmdExc}
    \cup {Raised(e, <<"get_login", "wait_username", "find_password">>, "click_submit") :
            e \in CmdExc}
    \cup {Raised("WebDriverException",
                 <<"get_login", "wait_username", "find_password", "click_submit">>,
                 "wait_feed")}
    \cup {Caught(EmptyText,
                 <<"get_login", "wait_username", "find_password", "click_submit">>,
                 "wait_feed", "TimeoutException", EmptyText)}
    \cup {Completed(EmptyText,
                    <<"get_login", "wait_username", "find_password", "click_submit",
                      "wait_feed">>, EmptyText)}

\* login(): the call returns or an exception escapes it
MessengerLogin ==
    {Raised(e, <<>>, "get_login") : e \in CmdExc}
    \cup {Raised(e, <<"get_login">>, "wait_username") : e \in WaitExc}
    \cup {Raised(e, <<"get_login", "wait_username">>, "find_password") : e \in CmdExc}
    \cup {Raised(e, <<"get_login", "wait_username", "find_password">>, "click_submit") :
            e \in CmdExc}
    \cup {Raised(e, <<"get_login", "wait_username", "find_password", "click_submit">>,
                 "wait_feed") : e \in WaitExc}
    \cup {Completed(EmptyText,
                    <<"get_login", "wait_username", "find_password", "click_submit",
                      "wait_feed">>, EmptyText)}

\* Variant: no finally block, the driver is left as it is
QuitNever(driver, e) == {driver}

\* Variant: quit at the end of the try body, so only when no exception is in flight
QuitOnSuccessOnly(driver, e) ==
    IF driver # "None" /\ e = "none" THEN {"quit", "quitfailed"} ELSE {driver}

\* finally: if self.driver is not None: self.driver.quit(), whatever exception e is
\* in flight; an exception of quit is caught.  The driver after the finally block.
QuitOutcomes(driver, e) ==
    IF driver # "None" THEN {"quit", "quitfailed"} ELSE {"None"}

\* Variant: the exception of quit is not caught and replaces the one in flight
AfterFinallyQuitRaises(e, driver) ==
    IF driver = "quitfailed" THEN "WebDriverException" ELSE e

\* the exception in flight after the finally block, e being the one in flight before
\* it and driver the driver after it: an exception of quit is caught and logged
AfterFinally(e, driver) == e

\* Variant: the loop is left after its first iteration (a return inside the loop)
HasNextFirstOnly(idx, rows) == idx <= Len(rows) /\ idx <= 1

\* for _, row in df.iterrows(): whether the loop has a next row
HasNext(idx, rows) == idx <= Len(rows)

\* Variant: the status is put in front of the list
PrependStatus(res, status) == <<status>> \o res

\* self._results.append(status)
AppendStatus(res, status) == Append(res, status)

MCreateDriver ==
    /\ pc = "m_create"
    /\ UNCHANGED pageVars
    /\ \/ /\ mDriver' = "live"
          /\ pc' = "m_login"
          /\ UNCHANGED exc
       \/ /\ exc' = "WebDriverException"
          /\ pc' = "m_finally"
          /\ UNCHANGED mDriver
    /\ last' = Nothing
    /\ UNCHANGED <<files, writes, scraperVars, mInput, messages, df, mResults, mIdx,
                   mAttempts>>

MLogin ==
    /\ pc = "m_login"
    /\ UNCHANGED pageVars
    /\ \E o \in MessengerLogin :
          /\ last' = o
          /\ exc' = o.exc
          /\ pc' = IF o.exc = "none" THEN "m_read" ELSE "m_finally"
    /\ UNCHANGED <<files, writes, scraperVars, messengerVars>>

\* df = pd.read_csv(...); column check; dropna; self._results = []
MRead ==
    /\ pc = "m_read"
    /\ UNCHANGED pageVars
    /\ LET file == files[mInput]
           frame == ReadCsv(file)
       IN  \/ /\ exc' = (IF ~file.exists THEN "FileNotFoundError"
                         ELSE IF ~SchemaOk(file.cols) THEN "ValueError"
                         ELSE IF "LinkedIn URL" \notin file.cols THEN "KeyError"
                         ELSE "none")
              /\ pc' = IF exc' = "none" THEN "m_loop" ELSE "m_finally"
              /\ IF exc' = "none"
                 THEN /\ df' = [frame EXCEPT !.rows = DropNa(frame.rows)]
                      /\ mResults' = <<>>
                      /\ mIdx' = 1
                 ELSE UNCHANGED <<df, mResults, mIdx>>
           \/ /\ file.exists
              /\ exc' = "OSError"
              /\ pc' = "m_finally"
              /\ UNCHANGED <<df, mResults, mIdx>>
    /\ last' = Nothing
    /\ UNCHANGED <<files, writes, scraperVars, mDriver, mInput, messages, mAttempts>>

\* one iteration of the for loop of run
MLoopRecord ==
    /\ pc = "m_loop"
    /\ UNCHANGED onPage
    /\ HasNext(mIdx, df.rows)
    /\ IF "Name" \notin df.cols
       THEN /\ exc' = "KeyError"
            /\ pc' = "m_finally"
            /\ last' = Nothing
            /\ slept' = <<>>
            /\ UNCHANGED <<mResults, mIdx, mAttempts>>
       ELSE LET row == df.rows[mIdx]
                name == Str(row["Name"])
                url == Str(row["LinkedIn URL"])
            IN  \E o \in SendMessageToProfile(url, name, messages) :
                   /\ last' = o
                   /\ mAttempts' = Append(mAttempts, <<url, name, o.status>>)
                   /\ exc' = o.exc
                   /\ IF o.exc = "none"
                      THEN /\ mResults' = AppendStatus(mResults, o.status)
                           /\ slept' = <<Uniform(MinDelay, MaxDelay)>>
                           /\ mIdx' = mIdx + 1
                           /\ pc' = "m_loop"
                      ELSE /\ pc' = "m_finally"
                           /\ slept' = <<>>
                           /\ UNCHANGED <<mResults, mIdx>>
    /\ UNCHANGED <<files, writes, scraperVars, mDriver, mInput, messages, df>>

\* df["Result"] = self._results; df.to_csv(...); return output_csv_path
MSave ==
    /\ pc = "m_loop"
    /\ UNCHANGED pageVars
    /\ ~HasNext(mIdx, df.rows)
    /\ pc' = "m_finally"
    /\ IF Len(mResults) # Len(df.rows)
       THEN /\ exc' = "ValueError"
            /\ UNCHANGED <<files, writes, df>>
       ELSE /\ df' = WithResult(df, mResults)
            /\ \/ /\ files' = [files EXCEPT ![MessengerOut] = ToCsv(df')]
                  /\ writes' = [writes EXCEPT ![MessengerOut] = @ + 1]
                  /\ exc' = "none"
               \/ /\ exc' = "OSError"
                  /\ UNCHANGED <<files, writes>>
    /\ last' = Nothing
    /\ UNCHANGED <<scraperVars, mDriver, mInput, messages, mResults, mIdx, mAttempts>>

\* finally: quit the driver if there is one; the exception in flight goes on
MFinally ==
    /\ pc = "m_finally"
    /\ UNCHANGED pageVars
    /\ mDriver' \in QuitOutcomes(mDriver, exc)
    /\ exc' = AfterFinally(exc, mDriver')
    /\ pc' = IF exc' = "none" THEN "done" ELSE "aborted"
    /\ UNCHANGED <<files, writes, scraperVars, mInput, messages, df, mResults,
                   mIdx, mAttempts, last>>

NextMsg == MCreateDriver \/ MLogin \/ MRead \/ MLoopRecord \/ MSave \/ MFinally

(* LinkedInMessenger.run on its own, on any input file *)

InputNames == {EmptyText, <<"a", " ", "b">>}

InputUrls == {EmptyText, <<"u1">>, <<"u2">>}

InputColumnSets == {{"Name"}, {"LinkedIn URL"}, {"Name", "LinkedIn URL"}}

InputCells(c) == IF c = "Name" THEN InputNames ELSE InputUrls

InputRows(cols) == {r \in [cols -> InputNames \cup InputUrls] :
                      \A c \in cols : r[c] \in InputCells(c)}

InputFiles ==
    {NoFile} \cup UNION {{CsvFile(cols, rows) : rows \in BoundedSeq(InputRows(cols), MaxRows)}
                          : cols \in InputColumnSets}

MessageSets == {<<>>, << <<"Hi ", "{first}">> >>}

InitMsg ==
    /\ pc = "m_create"
    /\ exc = "none"
    /\ \E f \in InputFiles :
          files = [p \in Paths |-> IF p = StandaloneIn THEN f ELSE NoFile]
    /\ writes = [p \in Paths |-> 0]
    /\ sDriver = "None"
    /\ profiles = <<>>
    /\ results = <<>>
    /\ page = StartPage
    /\ sIdx = 1
    /\ csvPath = ""
    /\ mDriver = "None"
    /\ mInput = StandaloneIn
    /\ messages \in MessageSets
    /\ df = EmptyFrame
    /\ mResults = <<>>
    /\ mIdx = 1
    /\ mAttempts = <<>>
    /\ last = Nothing
    /\ onPage = NoPage
    /\ slept = <<>>

SpecMsg == InitMsg /\ [][NextMsg]_vars

-----------------------------------------------------------------------------
(* LinkedInScraper *)

CardNames == {EmptyText, <<"a", " ", "b">>}

CardUrls == {<<"u1">>, <<"u2">>}

CardTitles == {<<"N/A">>}

Profile(name, title, link) ==
    ("Name" :> name) @@ ("Title" :> title) @@ ("LinkedIn URL" :> link)

Result(name, title, link, status) ==
    ("Name" :> name) @@ ("Title" :> title) @@ ("LinkedIn URL" :> link)
    @@ ("Connection" :> status)

\* a search-result card: scraped into a profile, or skipped when a lookup in it fails
Cards ==
    [ok : BOOLEAN, Name : CardNames, Title : CardTitles, Url : CardUrls]

IsScraped(card) == card.ok

ToProfile(card) == Profile(card.Name, card.Title, card.Url)

ScrapedProfiles(cards) ==
    LET kept == SelectSeq(cards, IsScraped)
    IN  [i \in 1..Len(kept) |-> ToProfile(kept[i])]

\* aria-label of an invite button: "Invite <somebody> to connect"
InviteLabel(n) == <<"Invite", " ">> \o n \o <<" ", "to connect">>

LabelNames == CardNames \cup {<<"c">>}

InviteButtonLists == BoundedSeq({InviteLabel(n) : n \in LabelNames}, MaxButtons)

\* Variant: the last matching button is taken instead of the first
SelectedLast(name, labels) ==
    IF \E i \in 1..Len(labels) : Contains(labels[i], name)
    THEN CHOOSE i \in 1..Len(labels) :
            /\ Contains(labels[i], name)
            /\ \A j \in (i + 1)..Len(labels) : ~Contains(labels[j], name)
    ELSE 0

\* next((btn for btn in invite_buttons if name in aria-label), None); 0 is None
Selected(name, labels) ==
    IF \E i \in 1..Len(labels) : Contains(labels[i], name)
    THEN CHOOSE i \in 1..Len(labels) :
            /\ Contains(labels[i], name)
            /\ \A j \in 1..(i - 1) : ~Contains(labels[j], name)
    ELSE 0

\* Variant: the wait for the confirmation dialog is left out
InviteFlowNoDialogWait(steps) ==
    {Raised(e, steps, "scroll_invite") : e \in CmdExc}
    \cup {Raised(e, steps \o <<"scroll_invite">>, "click_invite") : e \in CmdExc}
    \cup {Raised(e, steps \o <<"scroll_invite", "click_invite">>,
                 "wait_send_without_note") : e \in WaitExc}
    \cup {Raised(e, steps \o <<"scroll_invite", "click_invite",
                               "wait_send_without_note">>, "scroll_send") : e \in CmdExc}
    \cup {Raised(e, steps \o <<"scroll_invite", "click_invite",
                               "wait_send_without_note", "scroll_send">>,
                 "click_send") : e \in CmdExc}
    \cup {Completed(ConnectionRequestSent,
                    steps \o <<"scroll_invite", "click_invite",
                               "wait_send_without_note", "scroll_send", "click_send">>,
                    EmptyText)}

\* the try block after an invite button was selected
InviteFlow(steps) ==
    {Raised(e, steps, "scroll_invite") : e \in CmdExc}
    \cup {Raised(e, steps \o <<"scroll_invite">>, "click_invite") : e \in CmdExc}
    \cup {Raised(e, steps \o <<"scroll_invite", "click_invite">>, "wait_dialog") :
            e \in WaitExc}
    \cup {Raised(e, steps \o <<"scroll_invite", "click_invite", "wait_dialog">>,
                 "wait_send_without_note") : e \in WaitExc}
    \cup {Raised(e, steps \o <<"scroll_invite", "click_invite", "wait_dialog",
                               "wait_send_without_note">>, "scroll_send") : e \in CmdExc}
    \cup {Raised(e, steps \o <<"scroll_invite", "click_invite", "wait_dialog",
                               "wait_send_without_note", "scroll_send">>,
                 "click_send") : e \in CmdExc}
    \cup {Completed(ConnectionRequestSent,
                    steps \o <<"scroll_invite", "click_invite", "wait_dialog",
                               "wait_send_without_note", "scroll_send", "click_send">>,
                    EmptyText)}

\* the try block of send_connection_requests, before its except clauses.  The page
\* shows any list of invite buttons; an outcome is possible when some list leads to it.
TryInvite(name, steps) ==
    LET found == steps \o <<"find_invite_buttons">>
    IN  {Raised(e, steps, "find_invite_buttons") : e \in CmdExc}
        \cup (IF \E labels \in InviteButtonLists : labels # <<>>
              THEN {Raised(e, found, "get_attribute") : e \in CmdExc}
              ELSE {})
        \cup (IF \E labels \in InviteButtonLists : Selected(name, labels) # 0
              THEN InviteFlow(found \o <<"select_invite">>)
              ELSE {})
        \cup (IF \E labels \in InviteButtonLists : Selected(name, labels) = 0
              THEN {Raised("TimeoutException", found, "no_matching_invite")}
              ELSE {})

\* Variant: the final else of the Pending / Follow lookups is missing
FallbackNoElse(o) ==
    {Caught(RequestSent, o.steps \o <<"find_pending">>, o.failStep, o.failExc,
            EmptyText)}
    \cup {Caught(FollowOnly, o.steps \o <<"find_pending", "find_follow">>, o.failStep,
                 o.failExc, EmptyText)}
    \cup {Caught(EmptyText, o.steps \o <<"find_pending", "find_follow">>,
                 o.failStep, o.failExc, EmptyText)}

\* except TimeoutException: the Pending / Follow lookups
Fallback(o) ==
    {Raised(e, o.steps, "find_pending") : e \in CmdExc}
    \cup {Caught(RequestSent, o.steps \o <<"find_pending">>, o.failStep, o.failExc,
                 EmptyText)}
    \cup {Raised(e, o.steps \o <<"find_pending">>, "find_follow") : e \in CmdExc}
    \cup {Caught(FollowOnly, o.steps \o <<"find_pending", "find_follow">>, o.failStep,
                 o.failExc, EmptyText)}
    \cup {Caught(NoInviteOption, o.steps \o <<"find_pending", "find_follow">>,
                 o.failStep, o.failExc, EmptyText)}

\* the except clauses of send_connection_requests
HandleInvite(o) ==
    IF o.exc = "none" THEN {o}
    ELSE IF o.exc = "TimeoutException" THEN Fallback(o)
    ELSE IF o.exc = "NoSuchElementException"
         THEN {Caught(ErrorElementMissing, o.steps, o.failStep, o.failExc, EmptyText)}
         ELSE {Caught(ErrorUnexpected, o.steps, o.failStep, o.failExc, EmptyText)}

\* one iteration of the for loop of send_connection_requests: every way it can end
ConnectionRequest(name, link) ==
    {Raised(e, <<>>, "get_profile") : e \in CmdExc}
    \cup UNION {HandleInvite(o) : o \in TryInvite(name, <<"get_profile">>)}

\* login(): a timeout of the wait for the feed is caught, the rest escapes
ScraperLogin ==
    {Raised(e, <<>>, "get_login") : e \in CmdExc}
    \cup {Raised(e, <<"get_login">>, "wait_username") : e \in WaitExc}
    \cup {Raised(e, <<"get_login", "wait_username">>, "find_password") : e \in CmdExc}
    \cup {Raised(e, <<"get_login", "wait_username", "find_password">>, "click_submit") :
            e \in CmdExc}
    \cup {Raised("WebDriverException",
                 <<"get_login", "wait_username", "find_password", "click_submit">>,
                 "wait_feed")}
    \cup {Caught(EmptyText, <<"get_login", "wait_username", "find_password", "click_submit">>,
                 "wait_feed", "TimeoutException", EmptyText)}
    \cup {Completed(EmptyText,
                    <<"get_login", "wait_username", "find_password", "click_submit",
                      "wait_feed">>, EmptyText)}

\* Variant: a profile whose URL already has a result is not given a second one
AppendIfNewUrl(res, entry) ==
    IF \E i \in 1..Len(res) : res[i]["LinkedIn URL"] = entry["LinkedIn URL"]
    THEN res ELSE Append(res, entry)

\* self.results.append({...})
AppendResult(res, entry) == Append(res, entry)

\* save_results_to_csv: DataFrame(self.results), drop_duplicates, to_csv
SavedCsv(res) == CsvFile(ScraperColumns, DropDuplicates(res))

\* Variant: the messenger is configured with the input path of its own example
StandaloneInputPath(csv_path) == StandaloneIn

\* run_messenger_stage(csv_path): MessengerConfig(input_csv_path=input_csv)
MessengerInputPath(csv_path) == csv_path

SCreateDriver ==
    /\ pc = "s_create"
    /\ UNCHANGED pageVars
    /\ \/ /\ sDriver' = "live"
          /\ pc' = "s_login"
          /\ UNCHANGED exc
       \/ /\ exc' = "WebDriverException"
          /\ pc' = "s_finally"
          /\ UNCHANGED sDriver
    /\ last' = Nothing
    /\ UNCHANGED <<files, writes, profiles, results, page, sIdx, csvPath,
                   messengerVars>>

\* login(), then the entry of scrape_search_pages: self.profiles = []
SLogin ==
    /\ pc = "s_login"
    /\ UNCHANGED pageVars
    /\ \E o \in ScraperLogin :
          /\ last' = o
          /\ exc' = o.exc
          /\ pc' = IF o.exc = "none" THEN "s_scrape" ELSE "s_finally"
    /\ profiles' = <<>>
    /\ page' = StartPage
    /\ UNCHANGED <<files, writes, sDriver, results, sIdx, csvPath,
                   messengerVars>>

\* one iteration of the page loop of scrape_search_pages
SScrapePage ==
    /\ pc = "s_scrape"
    /\ UNCHANGED pageVars
    /\ page <= EndPage
    /\ \/ \E step \in {"get_search", "scroll", "find_cards"}, e \in CmdExc :
             /\ last' = Raised(e, <<>>, step)
             /\ exc' = e
             /\ pc' = "s_finally"
             /\ UNCHANGED <<profiles, page>>
       \/ \E cards \in BoundedSeq(Cards, MaxProfiles - Len(profiles)) :
             /\ profiles' = profiles \o ScrapedProfiles(cards)
             /\ page' = page + 1
             /\ last' = Nothing
             /\ UNCHANGED <<exc, pc>>
    /\ UNCHANGED <<files, writes, sDriver, results, sIdx, csvPath,
                   messengerVars>>

\* scrape_search_pages returns; send_connection_requests starts: self.results = []
SEnterConnect ==
    /\ pc = "s_scrape"
    /\ UNCHANGED pageVars
    /\ page > EndPage
    /\ results' = <<>>
    /\ sIdx' = 1
    /\ pc' = "s_connect"
    /\ last' = Nothing
    /\ UNCHANGED <<exc, files, writes, sDriver, profiles, page, csvPath,
                   messengerVars>>

\* one iteration of the for loop of send_connection_requests
SConnectRecord ==
    /\ pc = "s_connect"
    /\ UNCHANGED onPage
    /\ HasNext(sIdx, profiles)
    /\ LET entry == profiles[sIdx]
           name == entry["Name"]
           title == entry["Title"]
           link == entry["LinkedIn URL"]
       IN  \E o \in ConnectionRequest(name, link) :
              /\ last' = o
              /\ exc' = o.exc
              /\ IF o.exc = "none"
                 THEN /\ results' = AppendResult(results, Result(name, title, link, o.status))
                      /\ slept' = IF o.status = ConnectionRequestSent
                                  THEN <<Fixed(SentSleep)>> ELSE <<>>
                      /\ sIdx' = sIdx + 1
                      /\ pc' = "s_connect"
                 ELSE /\ pc' = "s_finally"
                      /\ slept' = <<>>
                      /\ UNCHANGED <<results, sIdx>>
    /\ UNCHANGED <<files, writes, sDriver, profiles, page, csvPath, messengerVars>>

\* the for loop of send_connection_requests ends: return self.results
SConnectReturn ==
    /\ pc = "s_connect"
    /\ UNCHANGED pageVars
    /\ ~HasNext(sIdx, profiles)
    /\ pc' = "s_save"
    /\ last' = Nothing
    /\ UNCHANGED <<exc, files, writes, scraperVars, messengerVars>>

\* if self.config.output_csv_path: save_results_to_csv(...); return self.results
SSave ==
    /\ pc = "s_save"
    /\ UNCHANGED pageVars
    /\ pc' = "s_finally"
    /\ \/ /\ files' = [files EXCEPT ![ScraperOut] = SavedCsv(results)]
          /\ writes' = [writes EXCEPT ![ScraperOut] = @ + 1]
          /\ exc' = "none"
       \/ /\ exc' = "OSError"
          /\ UNCHANGED <<files, writes>>
    /\ UNCHANGED <<scraperVars, messengerVars, last>>

\* finally: quit the driver if there is one; the exception in flight goes on
SFinally ==
    /\ pc = "s_finally"
    /\ UNCHANGED pageVars
    /\ sDriver' \in QuitOutcomes(sDriver, exc)
    /\ exc' = AfterFinally(exc, sDriver')
    /\ pc' = IF exc' = "none" THEN "s_returned" ELSE "aborted"
    /\ UNCHANGED <<files, writes, profiles, results, page, sIdx, csvPath,
                   messengerVars, last>>

-----------------------------------------------------------------------------
(* main *)

\* main calls run_scraper_stage, which builds the scraper and calls run
MainRunScraperStage ==
    /\ pc = "main"
    /\ UNCHANGED pageVars
    /\ pc' = "s_create"
    /\ UNCHANGED <<exc, files, writes, scraperVars, messengerVars, last>>

\* run_scraper_stage returns cfg.output_csv_path and its scraper object goes out of
\* scope; main calls run_messenger_stage with the returned path
MainRunMessengerStage ==
    /\ pc = "s_returned"
    /\ UNCHANGED pageVars
    /\ csvPath' = ScraperOut
    /\ profiles' = <<>>
    /\ results' = <<>>
    /\ page' = StartPage
    /\ sIdx' = 1
    /\ mInput' = MessengerInputPath(csvPath')
    /\ messages' = PipelineMessages
    /\ pc' = "m_create"
    /\ UNCHANGED <<exc, files, writes, sDriver, mDriver, df, mResults, mIdx, mAttempts,
                   last>>

Init ==
    /\ pc = "main"
    /\ exc = "none"
    /\ files = [p \in Paths |-> NoFile]
    /\ writes = [p \in Paths |-> 0]
    /\ sDriver = "None"
    /\ profiles = <<>>
    /\ results = <<>>
    /\ page = StartPage
    /\ sIdx = 1
    /\ csvPath = ""
    /\ mDriver = "None"
    /\ mInput = ""
    /\ messages = <<>>
    /\ df = EmptyFrame
    /\ mResults = <<>>
    /\ mIdx = 1
    /\ mAttempts = <<>>
    /\ last = Nothing
    /\ onPage = NoPage
    /\ slept = <<>>

Next ==
    \/ MainRunScraperStage
    \/ SCreateDriver \/ SLogin \/ SScrapePage \/ SEnterConnect \/ SConnectRecord
    \/ SConnectReturn \/ SSave \/ SFinally
    \/ MainRunMessengerStage
    \/ MCreateDriver \/ MLogin \/ MRead \/ MLoopRecord \/ MSave \/ MFinally

Spec == Init /\ [][Next]_vars

-----------------------------------------------------------------------------
(* One record on a given page: the two handlers again, with the content of the *)
(* page as an argument instead of left to the environment, so that what the     *)
(* handler did can be set against what the page showed.                         *)

\* Variant: a button only has to be displayed to be clicked
FirstDisplayed(buttons) ==
    IF \E i \in 1..Len(buttons) : buttons[i].displayed
    THEN CHOOSE i \in 1..Len(buttons) :
            /\ buttons[i].displayed
            /\ \A j \in 1..(i - 1) : ~buttons[j].displayed
    ELSE 0

\* for b in buttons: if b.is_displayed() and b.is_enabled(): b.click(); break
\* the position of the button that is clicked, 0 when the loop ends without a click
FirstClickable(buttons) ==
    IF MessageButtonClicked(buttons)
    THEN CHOOSE i \in 1..Len(buttons) :
            /\ buttons[i].displayed /\ buttons[i].enabled
            /\ \A j \in 1..(i - 1) : ~(buttons[j].displayed /\ buttons[j].enabled)
    ELSE 0

\* send_message_to_profile, part 1, on a page that shows these Message buttons
OpenMessageOnPage(steps, first, msgs, buttons) ==
    LET found == steps \o <<"find_message_buttons">>
    IN  {Caught(Failed, steps, "find_message_buttons", e, EmptyText) : e \in CmdExc}
        \cup (IF buttons # <<>>
              THEN {Caught(Failed, found, "is_displayed", e, EmptyText) : e \in CmdExc}
              ELSE {})
        \cup (IF FirstClickable(buttons) # 0
              THEN {Caught(Failed, found, "click_message", e, EmptyText) : e \in CmdExc}
                   \cup TypeMessage(found \o <<"click_message">>, first, msgs)
              ELSE {Caught(Failed, found, "no_message_button", "none", EmptyText)})

SendMessageOnPage(profile_url, name, msgs, buttons) ==
    {Raised(e, <<>>, "get_profile") : e \in CmdExc}
    \cup OpenMessageOnPage(<<"get_profile">>, FirstName(name), msgs, buttons)

\* a profile page as the connection stage looks at it
ProfilePages == [labels : InviteButtonLists, pending : BOOLEAN, follow : BOOLEAN]

\* the try block of send_connection_requests on a page with these invite buttons
TryInviteOnPage(name, steps, labels) ==
    LET found == steps \o <<"find_invite_buttons">>
    IN  {Raised(e, steps, "find_invite_buttons") : e \in CmdExc}
        \cup (IF labels # <<>>
              THEN {Raised(e, found, "get_attribute") : e \in CmdExc}
              ELSE {})
        \cup (IF Selected(name, labels) # 0
              THEN InviteFlow(found \o <<"select_invite">>)
              ELSE {Raised("TimeoutException", found, "no_matching_invite")})

\* Variant: the Follow button is looked for before the Pending button
FallbackFollowFirst(o, pending, follow) ==
    IF follow
    THEN {Caught(FollowOnly, o.steps \o <<"find_follow">>, o.failStep, o.failExc,
                 EmptyText)}
    ELSE IF pending
         THEN {Caught(RequestSent, o.steps \o <<"find_follow", "find_pending">>,
                      o.failStep, o.failExc, EmptyText)}
         ELSE {Caught(NoInviteOption, o.steps \o <<"find_follow", "find_pending">>,
                      o.failStep, o.failExc, EmptyText)}

\* except TimeoutException: if Pending found ... elif Follow found ... else ...
FallbackOnPage(o, pending, follow) ==
    {Raised(e, o.steps, "find_pending") : e \in CmdExc}
    \cup (IF pending
          THEN {Caught(RequestSent, o.steps \o <<"find_pending">>, o.failStep,
                       o.failExc, EmptyText)}
          ELSE {Raised(e, o.steps \o <<"find_pending">>, "find_follow") : e \in CmdExc}
               \cup (IF follow
                     THEN {Caught(FollowOnly, o.steps \o <<"find_pending", "find_follow">>,
                                  o.failStep, o.failExc, EmptyText)}
                     ELSE {Caught(NoInviteOption,
                                  o.steps \o <<"find_pending", "find_follow">>,
                                  o.failStep, o.failExc, EmptyText)}))

HandleInviteOnPage(o, pending, follow) ==
    IF o.exc = "none" THEN {o}
    ELSE IF o.exc = "TimeoutException" THEN FallbackOnPage(o, pending, follow)
    ELSE IF o.exc = "NoSuchElementException"
         THEN {Caught(ErrorElementMissing, o.steps, o.failStep, o.failExc, EmptyText)}
         ELSE {Caught(ErrorUnexpected, o.steps, o.failStep, o.failExc, EmptyText)}

ConnectionRequestOnPage(name, link, pg) ==
    {Raised(e, <<>>, "get_profile") : e \in CmdExc}
    \cup UNION {HandleInviteOnPage(o, pg.pending, pg.follow) :
                  o \in TryInviteOnPage(name, <<"get_profile">>, pg.labels)}

\* whether the handler called click on a button of the kind it looks for
Clicks(o, step) == step \in Range(o.steps) \cup {o.failStep}

\* one iteration of the for loop of run, on a page with these Message buttons
MLoopOnPage ==
    /\ pc = "m_loop"
    /\ HasNext(mIdx, df.rows)
    /\ IF "Name" \notin df.cols
       THEN /\ exc' = "KeyError"
            /\ pc' = "m_finally"
            /\ last' = Nothing
            /\ onPage' = NoPage
            /\ slept' = <<>>
            /\ UNCHANGED <<mResults, mIdx, mAttempts>>
       ELSE LET row == df.rows[mIdx]
                name == Str(row["Name"])
                url == Str(row["LinkedIn URL"])
            IN  \E buttons \in ButtonLists :
                \E o \in SendMessageOnPage(url, name, messages, buttons) :
                   /\ last' = o
                   /\ onPage' = [NoPage EXCEPT
                                   !.buttons = buttons,
                                   !.clicked = IF Clicks(o, "click_message")
                                               THEN FirstClickable(buttons) ELSE 0]
                   /\ mAttempts' = Append(mAttempts, <<url, name, o.status>>)
                   /\ exc' = o.exc
                   /\ IF o.exc = "none"
                      THEN /\ mResults' = AppendStatus(mResults, o.status)
                           /\ slept' = <<Uniform(MinDelay, MaxDelay)>>
                           /\ mIdx' = mIdx + 1
                           /\ pc' = "m_loop"
                      ELSE /\ pc' = "m_finally"
                           /\ slept' = <<>>
                           /\ UNCHANGED <<mResults, mIdx>>
    /\ UNCHANGED <<files, writes, scraperVars, mDriver, mInput, messages, df>>

\* one iteration of the for loop of send_connection_requests, on a given page
SConnectOnPage ==
    /\ pc = "s_connect"
    /\ HasNext(sIdx, profiles)
    /\ LET entry == profiles[sIdx]
           name == entry["Name"]
           title == entry["Title"]
           link == entry["LinkedIn URL"]
       IN  \E pg \in ProfilePages :
           \E o \in ConnectionRequestOnPage(name, link, pg) :
              /\ last' = o
              /\ onPage' = [NoPage EXCEPT
                              !.labels = pg.labels,
                              !.pending = pg.pending,
                              !.follow = pg.follow,
                              !.clicked = IF Clicks(o, "click_invite")
                                          THEN Selected(name, pg.labels) ELSE 0]
              /\ exc' = o.exc
              /\ IF o.exc = "none"
                 THEN /\ results' = AppendResult(results, Result(name, title, link, o.status))
                      /\ slept' = IF o.status = ConnectionRequestSent
                                  THEN <<Fixed(SentSleep)>> ELSE <<>>
                      /\ sIdx' = sIdx + 1
                      /\ pc' = "s_connect"
                 ELSE /\ pc' = "s_finally"
                      /\ slept' = <<>>
                      /\ UNCHANGED <<results, sIdx>>
    /\ UNCHANGED <<files, writes, sDriver, profiles, page, csvPath, messengerVars>>

\* the leads of the per-record specification: one record
RecordProfiles ==
    {<<Profile(n, t, u)>> : n \in CardNames, t \in CardTitles, u \in CardUrls}

RecordFiles ==
    {CsvFile({"Name", "LinkedIn URL"}, [i \in 1..Len(ps) |->
        [c \in {"Name", "LinkedIn URL"} |-> ps[i][c]]]) : ps \in RecordProfiles}

\* send_connection_requests at the entry of its loop
InitConnect ==
    /\ pc = "s_connect"
    /\ sDriver = "live"
    /\ profiles \in RecordProfiles
    /\ page = EndPage + 1
    /\ files = [p \in Paths |-> NoFile]
    /\ mDriver = "None"
    /\ mInput = ""
    /\ messages = <<>>
    /\ df = EmptyFrame

\* LinkedInMessenger.run at the entry of its loop: logged in, the file read
InitSend ==
    /\ pc = "m_loop"
    /\ sDriver = "None"
    /\ profiles = <<>>
    /\ page = StartPage
    /\ mDriver = "live"
    /\ mInput = StandaloneIn
    /\ messages \in MessageSets
    /\ \E f \in RecordFiles :
          /\ files = [p \in Paths |-> IF p = StandaloneIn THEN f ELSE NoFile]
          /\ df = [ReadCsv(f) EXCEPT !.rows = DropNa(@)]

InitRecord ==
    /\ InitConnect \/ InitSend
    /\ exc = "none"
    /\ writes = [p \in Paths |-> 0]
    /\ results = <<>>
    /\ sIdx = 1
    /\ csvPath = ""
    /\ mResults = <<>>
    /\ mIdx = 1
    /\ mAttempts = <<>>
    /\ last = Nothing
    /\ onPage = NoPage
    /\ slept = <<>>

NextRecord == SConnectOnPage \/ SConnectReturn \/ MLoopOnPage \/ MSave

SpecRecord == InitRecord /\ [][NextRecord]_vars

-----------------------------------------------------------------------------
(* Properties *)

ScraperPcs == {"s_create", "s_login", "s_scrape", "s_connect", "s_save", "s_finally"}

MessengerPcs == {"m_create", "m_login", "m_read", "m_loop", "m_finally"}

\* the messenger was configured: it runs or has run
InMessenger == mInput # ""

RECURSIVE NonEmptyUrls(_)
NonEmptyUrls(rows) ==
    IF rows = <<>> THEN <<>>
    ELSE (IF Head(rows)["LinkedIn URL"] = EmptyText
          THEN <<>> ELSE <<Head(rows)["LinkedIn URL"]>>)
         \o NonEmptyUrls(Tail(rows))

\* C1: when LinkedInMessenger.run returns normally, send_message_to_profile was called
\* exactly once for each input row with a URL, in input order, and the output file has
\* one row per such record whose Result is 'Message Sent' or 'Failed' and is the status
\* that the call for that record returned.
C1_EveryRecordOneResult ==
    pc = "done" =>
        LET expected == NonEmptyUrls(files[mInput].rows)
            out == files[MessengerOut]
        IN  /\ Len(mAttempts) = Len(expected)
            /\ \A i \in 1..Len(expected) : mAttempts[i][1] = expected[i]
            /\ out.exists
            /\ Len(out.rows) = Len(expected)
            /\ \A i \in 1..Len(out.rows) :
                  /\ out.rows[i]["LinkedIn URL"] = expected[i]
                  /\ out.rows[i]["Result"] \in ResultLabels
                  /\ out.rows[i]["Result"] = mAttempts[i][3]

C1_Witness ==
    /\ pc = "done"
    /\ Len(mAttempts) = 2
    /\ mAttempts[1][3] = Failed
    /\ mAttempts[2][3] = MessageSent
    /\ mAttempts[1][1] # mAttempts[2][1]

\* C2: when send_connection_requests has returned, results has one entry per profile,
\* in the same order, and every Connection label is one of the six labels (never the
\* empty initial status).
C2_OneLabelPerProfile ==
    pc \in {"s_save", "s_returned"} =>
        /\ Len(results) = Len(profiles)
        /\ \A i \in 1..Len(results) :
              /\ results[i]["Name"] = profiles[i]["Name"]
              /\ results[i]["Title"] = profiles[i]["Title"]
              /\ results[i]["LinkedIn URL"] = profiles[i]["LinkedIn URL"]
              /\ results[i]["Connection"] \in ConnectionLabels

C2_Witness ==
    /\ pc = "s_save"
    /\ Len(results) = 2
    /\ results[1]["Connection"] = ErrorElementMissing
    /\ results[2]["Connection"] = NoInviteOption
    /\ results[1]["LinkedIn URL"] # results[2]["LinkedIn URL"]

\* the steps of handling one record, in either stage
RecordSteps ==
    {"get_profile", "find_message_buttons", "is_displayed", "click_message",
     "wait_input_box", "clear", "send_keys", "wait_send_button", "click_send",
     "wait_box_cleared", "find_invite_buttons", "get_attribute", "scroll_invite",
     "click_invite", "wait_dialog", "wait_send_without_note", "scroll_send",
     "find_pending", "find_follow"}

\* C3: a failure of any step of handling one record, the navigation to the profile and
\* the Pending / Follow lookups included, is caught and mapped to a label of that record,
\* and the loop goes on: no such failure escapes the handler.
C3_RecordFailureNeverEscapes ==
    (last.failStep \in RecordSteps /\ last.failExc # "none") =>
        /\ last.exc = "none"
        /\ last.status \in ConnectionLabels \cup ResultLabels
        /\ pc \in {"s_connect", "m_loop"}

\* C4: once run has returned or let its exception go on, a driver that was created has
\* had quit called on it, in both stages and on every exit path.
C4_QuitOnEveryExit ==
    /\ (pc \in {"s_returned", "done", "aborted"} \cup MessengerPcs) => sDriver # "live"
    /\ pc \in {"done", "aborted"} => mDriver # "live"

C4_Witness ==
    /\ pc = "aborted"
    /\ last.failStep = "get_profile"
    /\ Len(mResults) = 1
    /\ mDriver = "quit"
    /\ sDriver = "quit"

\* C5: each output file is written at most once per run and only after the last record
\* of the stage was handled: while the scraper lives its file, once there, has a row for
\* the URL of every profile, and the messenger's file has a row for every row of df.  A
\* run that is aborted before the save writes nothing.
C5_OutputOnlyAfterAllRecords ==
    /\ \A p \in Paths : writes[p] <= 1 /\ (files[p].exists <=> writes[p] = 1)
    /\ files[ScraperOut].exists =>
          /\ pc \notin {"main", "s_create", "s_login", "s_scrape", "s_connect", "s_save"}
          /\ pc \in {"s_finally", "s_returned"} =>
                /\ Len(results) = Len(profiles)
                /\ {r["LinkedIn URL"] : r \in Range(files[ScraperOut].rows)}
                     = {q["LinkedIn URL"] : q \in Range(profiles)}
    /\ files[MessengerOut].exists =>
          /\ pc \in {"m_finally", "done"}
          /\ Len(files[MessengerOut].rows) = Len(df.rows)
          /\ Len(mAttempts) = Len(df.rows)
          /\ files[MessengerOut].rows = ToCsv(df).rows

C5_Witness ==
    /\ pc = "done"
    /\ Len(files[ScraperOut].rows) = 2
    /\ Len(files[MessengerOut].rows) = 2

\* C6: a row without a URL is never passed to send_message_to_profile and is in no
\* output row; the output has as many rows as the input has rows with a URL.
C6_RowsWithoutUrlDropped ==
    /\ \A i \in 1..Len(mAttempts) : mAttempts[i][1] \notin {EmptyText, NanText, NaN}
    /\ files[MessengerOut].exists =>
          /\ \A r \in Range(files[MessengerOut].rows) : r["LinkedIn URL"] # EmptyText
          /\ Len(files[MessengerOut].rows)
               = Cardinality({i \in 1..Len(files[mInput].rows) :
                                files[mInput].rows[i]["LinkedIn URL"] # EmptyText})

C6_Witness ==
    /\ pc = "done"
    /\ mInput = StandaloneIn
    /\ Len(files[mInput].rows) = 3
    /\ files[mInput].rows[2]["LinkedIn URL"] = EmptyText
    /\ Len(files[MessengerOut].rows) = 2
    /\ Len(mAttempts) = 2

BadSchema ==
    /\ mInput # ""
    /\ files[mInput].exists
    /\ ~({"Name", "LinkedIn URL"} \subseteq files[mInput].cols)

\* C7: with an input file that lacks the Name or the LinkedIn URL column, run never
\* reaches the loop: nothing is attempted, no result is recorded, no output is written,
\* run does not return normally, and once the file was read the exception is the
\* ValueError of the column check.
C7_SchemaErrorBeforeAnyRecord ==
    BadSchema =>
        /\ mAttempts = <<>>
        /\ mResults = <<>>
        /\ ~files[MessengerOut].exists
        /\ pc \notin {"m_loop", "done"}
        /\ (pc \in {"m_finally", "aborted"} /\ mDriver # "None" /\ last = Nothing) =>
              exc \in {"ValueError", "OSError"}

C7_Witness ==
    /\ BadSchema
    /\ pc = "aborted"
    /\ exc = "ValueError"
    /\ Len(files[mInput].rows) = 2
    /\ mDriver = "quit"

\* the pipeline states of the design, read off the control position
Stage ==
    IF pc = "main" THEN "Idle"
    ELSE IF pc = "done" THEN "Done"
    ELSE IF pc = "aborted" \/ exc # "none" THEN "Aborted"
    ELSE IF pc \in {"s_create", "s_login", "s_scrape"} THEN "Scraping"
    ELSE IF pc \in {"s_connect", "s_save"} THEN "Connecting"
    ELSE IF pc \in {"s_finally", "s_returned"} THEN "Persisted1"
    ELSE IF pc = "m_finally" THEN "Persisted2"
    ELSE "Messaging"

StageOrder ==
    {<<"Idle", "Scraping">>, <<"Scraping", "Connecting">>, <<"Connecting", "Persisted1">>,
     <<"Persisted1", "Messaging">>, <<"Messaging", "Persisted2">>,
     <<"Persisted2", "Done">>}

C8_MessagingAfterPersist ==
    (Stage \in {"Messaging", "Persisted2", "Done"} \/ InMessenger) =>
        /\ files[ScraperOut].exists
        /\ writes[ScraperOut] = 1
        /\ sDriver \in {"quit", "quitfailed"}
        /\ csvPath = ScraperOut
        /\ mInput = csvPath

C8_StageStep ==
    \/ Stage' = Stage
    \/ <<Stage, Stage'>> \in StageOrder
    \/ Stage' = "Aborted" /\ Stage \notin {"Idle", "Done"}

\* C8: the pipeline moves through Idle, Scraping, Connecting, Persisted1, Messaging,
\* Persisted2, Done in that order (or stops, aborted); the messenger runs only after the
\* scraper returned with its CSV written, and reads the path that the scraper wrote.
C8_PipelineOrder == []C8_MessagingAfterPersist /\ [][C8_StageStep]_vars

C8_Witness ==
    /\ pc = "done"
    /\ mInput = ScraperOut
    /\ Len(files[ScraperOut].rows) = 2
    /\ files[MessengerOut].exists

RecordWaits ==
    {"wait_input_box", "wait_send_button", "wait_box_cleared", "wait_dialog",
     "wait_send_without_note"}

LoginWaits == {"wait_username", "wait_feed"}

C10_MissingDialogIsElementMissing ==
    (/\ last.exc = "none"
     /\ \E i \in 1..Len(last.steps) : last.steps[i] = "click_invite"
     /\ last.failStep # "none") =>
        /\ (last.failStep \in {"wait_dialog", "wait_send_without_note"}
            /\ last.failExc = "TimeoutException") => last.status = ErrorElementMissing
        /\ last.failExc = "WebDriverException" => last.status = ErrorUnexpected

StepsAfterOpen ==
    {"choice", "clear", "send_keys", "wait_send_button", "click_send",
     "wait_box_cleared"}

\* C12: with an empty list of templates every status that send_message_to_profile
\* returns is 'Failed', random.choice is never reached, nothing is typed and the send
\* button is never waited for or clicked; an output file holds only 'Failed'.
C12_NoTemplatesAllFailed ==
    (messages = <<>> /\ pc \in MessengerPcs \cup {"done", "aborted"}) =>
        /\ \A i \in 1..Len(mResults) : mResults[i] = Failed
        /\ \A i \in 1..Len(mAttempts) : mAttempts[i][3] # MessageSent
        /\ \A i \in 1..Len(last.steps) : last.steps[i] \notin StepsAfterOpen
        /\ last.failStep \notin StepsAfterOpen
        /\ last.typed = EmptyText
        /\ files[MessengerOut].exists =>
              \A r \in Range(files[MessengerOut].rows) : r["Result"] = Failed

C12_Witness ==
    /\ messages = <<>>
    /\ pc = "m_loop"
    /\ Len(mResults) = 2
    /\ last.failStep = "no_messages"
    /\ last.status = Failed
    /\ last.steps[Len(last.steps)] = "wait_input_box"

\* the first whitespace-delimited token of a text, by position: from its first
\* character that is not a space up to the next space
TokenOf(name) ==
    IF \A i \in 1..Len(name) : name[i] = " " THEN EmptyText
    ELSE LET from == CHOOSE i \in 1..Len(name) :
                        name[i] # " " /\ \A j \in 1..(i - 1) : name[j] = " "
             upto == CHOOSE k \in from..Len(name) :
                        /\ \A j \in from..k : name[j] # " "
                        /\ (k = Len(name) \/ name[k + 1] = " ")
         IN  SubSeq(name, from, upto)

\* the first name the design asks for: empty for a missing Name cell
DesignFirstName(cell) == IF cell = NaN THEN EmptyText ELSE TokenOf(cell)

\* C13: the text typed for a record is a template with the first whitespace-delimited
\* token of the record's Name cell put in, and with the empty text put in when the Name
\* cell is missing, empty or blank.
C13_FirstNameIsFirstToken ==
    (pc = "m_loop" /\ mIdx > 1 /\ last.typed # EmptyText) =>
        \E template \in Range(messages) :
            last.typed = Format(template, DesignFirstName(df.rows[mIdx - 1]["Name"]))

RECURSIVE FirstIndexOf(_, _)
FirstIndexOf(rows, url) ==
    IF rows = <<>> THEN 0
    ELSE IF Head(rows)["LinkedIn URL"] = url THEN 1
    ELSE LET rest == FirstIndexOf(Tail(rows), url)
         IN  IF rest = 0 THEN 0 ELSE rest + 1

\* C14: the rows of the scraper's CSV are, for each URL of results, the first entry of
\* results with that URL, in the order of those first entries; no two rows share a URL;
\* de-duplicating a de-duplicated list changes nothing.
C14_DedupeKeepsFirst ==
    /\ DropDuplicates(DropDuplicates(results)) = DropDuplicates(results)
    /\ files[ScraperOut].exists =>
          LET rows == files[ScraperOut].rows
          IN  /\ \A i, j \in 1..Len(rows) :
                    i # j => rows[i]["LinkedIn URL"] # rows[j]["LinkedIn URL"]
              /\ DropDuplicates(rows) = rows
              /\ pc \in {"s_finally", "s_returned"} =>
                    /\ {r["LinkedIn URL"] : r \in Range(rows)}
                         = {r["LinkedIn URL"] : r \in Range(results)}
                    /\ \A i \in 1..Len(rows) :
                          rows[i] = results[FirstIndexOf(results, rows[i]["LinkedIn URL"])]
                    /\ \A i, j \in 1..Len(rows) :
                          i < j => FirstIndexOf(results, rows[i]["LinkedIn URL"])
                                     < FirstIndexOf(results, rows[j]["LinkedIn URL"])

C14_Witness ==
    /\ pc = "s_finally"
    /\ Len(results) = 2
    /\ results[1]["LinkedIn URL"] = results[2]["LinkedIn URL"]
    /\ results[1]["Connection"] = ConnectionRequestSent
    /\ results[2]["Connection"] = NoInviteOption
    /\ Len(files[ScraperOut].rows) = 1
    /\ files[ScraperOut].rows[1]["Connection"] = ConnectionRequestSent

\* quit returned: the session is closed.  quit raised: the error is swallowed and
\* nothing tells whether the browser was shut down.
SessionMayBeLive(driver) == driver \in {"live", "quitfailed"}

InviteSteps ==
    <<"get_profile", "find_invite_buttons", "select_invite", "scroll_invite",
      "click_invite", "wait_dialog", "wait_send_without_note", "scroll_send",
      "click_send">>

\* C17: the label of a record is 'Connection request sent' exactly when the handler
\* went, in this order and without a failure, through: invite button selected and
\* clicked, dialog seen, 'Send without a note' clickable, 'Send without a note' clicked.
C17_SentIffAllStepsInOrder ==
    (pc = "s_connect" /\ sIdx > 1) =>
        /\ results[sIdx - 1]["Connection"] = last.status
        /\ last.status = ConnectionRequestSent
              <=> (last.steps = InviteSteps /\ last.failStep = "none")

C17_Witness ==
    /\ pc = "s_connect"
    /\ sIdx = 3
    /\ results[1]["Connection"] = NoInviteOption
    /\ results[2]["Connection"] = ConnectionRequestSent
    /\ last.steps = InviteSteps

\* C20: the messenger keeps every row of the scraper's CSV whatever its Connection
\* label, attempts them in order, and writes each Connection label unchanged next to
\* the Result.
C20_ConnectionLabelIgnored ==
    LET inp == files[ScraperOut].rows
    IN  /\ pc = "m_loop" =>
              /\ Len(df.rows) = Len(inp)
              /\ \A i \in 1..Len(inp) :
                    df.rows[i]["Connection"] = inp[i]["Connection"]
              /\ \A i \in 1..Len(mAttempts) :
                    mAttempts[i][1] = inp[i]["LinkedIn URL"]
        /\ pc = "done" =>
              /\ Len(mAttempts) = Len(inp)
              /\ Len(files[MessengerOut].rows) = Len(inp)
              /\ \A i \in 1..Len(inp) :
                    /\ mAttempts[i][1] = inp[i]["LinkedIn URL"]
                    /\ files[MessengerOut].rows[i]["LinkedIn URL"] = inp[i]["LinkedIn URL"]
                    /\ files[MessengerOut].rows[i]["Connection"] = inp[i]["Connection"]
                    /\ files[MessengerOut].rows[i]["Result"] = mAttempts[i][3]

C20_Witness ==
    /\ pc = "done"
    /\ Len(files[ScraperOut].rows) = 2
    /\ files[ScraperOut].rows[1]["Connection"] = NoInviteOption
    /\ files[ScraperOut].rows[2]["Connection"] = ErrorUnexpected
    /\ files[MessengerOut].rows[1]["Connection"] = NoInviteOption
    /\ files[MessengerOut].rows[1]["Result"] = MessageSent
    /\ files[MessengerOut].rows[2]["Result"] = MessageSent

\* the two ways of writing each handler give the same outcomes: what the handler can do
\* on some page is what it can do when the page is left to the environment
PageHandlersAgree ==
    /\ \A n \in CardNames, u \in CardUrls :
          ConnectionRequest(n, u)
            = UNION {ConnectionRequestOnPage(n, u, pg) : pg \in ProfilePages}
    /\ \A n \in {EmptyText, NanText, <<"a", " ", "b">>}, u \in CardUrls :
          \A msgs \in MessageSets \cup {PipelineMessages} :
             SendMessageToProfile(u, n, msgs)
               = UNION {SendMessageOnPage(u, n, msgs, b) : b \in ButtonLists}

\* the record the last handler worked on, in the connection stage
HandledProfile == profiles[IF pc = "s_connect" THEN sIdx - 1 ELSE sIdx]

\* the connection handler has just ended for a record and gave it a label
ConnectionLabelled == pc = "s_connect" /\ sIdx > 1

\* no invite button of the page has a label that contains the record's name
NoInviteForRecord ==
    \A i \in 1..Len(onPage.labels) :
        ~Contains(onPage.labels[i], HandledProfile["Name"])

\* the lookup of the invite buttons and the reading of their labels went through
InviteLookupDone ==
    /\ \E i \in 1..Len(last.steps) : last.steps[i] = "find_invite_buttons"
    /\ last.failStep # "get_attribute"

FallbackLabel ==
    IF onPage.pending THEN RequestSent
    ELSE IF onPage.follow THEN FollowOnly
    ELSE NoInviteOption

\* C11: when the lookup finds no invite button for the record, the label is decided by
\* the Pending / Follow lookups: 'Request Sent' if the page has a Pending button (with
\* or without a Follow button), else 'Not connected - follow only' if it has a Follow
\* button, else 'No invite option'.
C11_FallbackPriority ==
    (ConnectionLabelled /\ InviteLookupDone /\ NoInviteForRecord) =>
        /\ last.failStep = "no_matching_invite"
        /\ onPage.clicked = 0
        /\ last.status = FallbackLabel
        /\ results[sIdx - 1]["Connection"] = FallbackLabel

C11_Witness ==
    /\ ConnectionLabelled /\ InviteLookupDone /\ NoInviteForRecord
    /\ onPage.labels = <<>>
    /\ onPage.pending /\ onPage.follow
    /\ results[1]["Connection"] = RequestSent

\* C15: between the end of one record's attempt and the start of the next there is
\* exactly one pacing sleep, of a duration within [min_delay, max_delay], in the
\* messaging stage and in the connection stage.
C15_OnePacingDelayBetweenRecords ==
    ((pc = "m_loop" /\ mIdx > 1 /\ HasNext(mIdx, df.rows))
     \/ (pc = "s_connect" /\ sIdx > 1 /\ HasNext(sIdx, profiles))) =>
        /\ Len(slept) = 1
        /\ MinDelay <= slept[1].lo
        /\ slept[1].hi <= MaxDelay

SendSteps ==
    <<"get_profile", "find_message_buttons", "click_message", "wait_input_box", "choice",
      "clear", "send_keys", "wait_send_button", "click_send", "wait_box_cleared">>

IsPrefix(s, t) == Len(s) <= Len(t) /\ s = SubSeq(t, 1, Len(s))

\* C18: the handler returns 'Message Sent' exactly when it went, in this order and
\* without a failure, through: Message button clicked, compose box found, message
\* typed, send button clicked, compose box seen empty or gone; the button clicked is
\* displayed and enabled; after a failure the status is 'Failed' and no later step
\* was made; on a page without a displayed and enabled Message button nothing is
\* clicked, typed or sent.
C18_SentOnlyAfterAllSteps ==
    (pc = "m_loop" /\ mIdx > 1) =>
        /\ last.status \in ResultLabels
        /\ mResults[mIdx - 1] = last.status
        /\ IsPrefix(last.steps, SendSteps)
        /\ last.status = MessageSent <=> (last.steps = SendSteps /\ last.failStep = "none")
        /\ last.failStep # "none" => (last.status = Failed /\ last.steps # SendSteps)
        /\ last.status = MessageSent => last.typed # EmptyText
        /\ Clicks(last, "click_message") =>
              /\ onPage.clicked \in 1..Len(onPage.buttons)
              /\ onPage.buttons[onPage.clicked].displayed
              /\ onPage.buttons[onPage.clicked].enabled
        /\ (\A i \in 1..Len(onPage.buttons) :
                ~(onPage.buttons[i].displayed /\ onPage.buttons[i].enabled)) =>
              /\ last.status = Failed
              /\ onPage.clicked = 0
              /\ Len(last.steps) <= 2
              /\ last.typed = EmptyText

C18_Witness ==
    /\ pc = "m_loop" /\ mIdx > 1
    /\ last.status = MessageSent
    /\ last.steps = SendSteps
    /\ Len(onPage.buttons) = 2
    /\ ~onPage.buttons[1].enabled
    /\ onPage.clicked = 2

\* C19: the invite button clicked is the first of the page, in page order, whose label
\* contains the record's name; when the page has invite buttons but none for the
\* record, none is clicked and the label is the one of the Pending / Follow lookups.
C19_FirstMatchingInviteClicked ==
    (pc \in {"s_connect", "s_finally"} /\ last # Nothing) =>
        /\ Clicks(last, "click_invite") =>
              /\ onPage.clicked \in 1..Len(onPage.labels)
              /\ Contains(onPage.labels[onPage.clicked], HandledProfile["Name"])
              /\ \A j \in 1..(onPage.clicked - 1) :
                    ~Contains(onPage.labels[j], HandledProfile["Name"])
        /\ (onPage.labels # <<>> /\ NoInviteForRecord) =>
              /\ ~Clicks(last, "click_invite")
              /\ onPage.clicked = 0
              /\ (ConnectionLabelled /\ InviteLookupDone) =>
                    /\ last.failStep = "no_matching_invite"
                    /\ last.steps = <<"get_profile", "find_invite_buttons">>
                                       \o (IF onPage.pending THEN <<"find_pending">>
                                           ELSE <<"find_pending", "find_follow">>)
                    /\ results[sIdx - 1]["Connection"] = FallbackLabel

C19_Witness ==
    /\ ConnectionLabelled
    /\ Len(onPage.labels) = 2
    /\ ~Contains(onPage.labels[1], HandledProfile["Name"])
    /\ onPage.clicked = 2
    /\ last.status = ConnectionRequestSent

\* C21: duplicates are removed only in the saved file.  Every scraped profile is
\* visited and given a result of its own, a URL scraped twice is visited twice, so the
\* list that run returns has one entry per profile and can be longer than the file;
\* the label saved for a URL is the label of its first visit.
C21_DedupeOnlyAtSave ==
    /\ pc = "s_connect" => Len(results) = sIdx - 1
    /\ pc \in {"s_connect", "s_save", "s_finally", "s_returned"} =>
          /\ Len(results) <= Len(profiles)
          /\ \A i \in 1..Len(results) :
                results[i]["LinkedIn URL"] = profiles[i]["LinkedIn URL"]
    /\ pc = "s_returned" =>
          LET rows == files[ScraperOut].rows
          IN  /\ Len(results) = Len(profiles)
              /\ Len(rows) = Cardinality({q["LinkedIn URL"] : q \in Range(profiles)})
              /\ Len(rows) <= Len(results)
              /\ \A i \in 1..Len(rows) :
                    rows[i]["Connection"]
                      = results[FirstIndexOf(results, rows[i]["LinkedIn URL"])]["Connection"]

C21_Witness ==
    /\ pc = "s_returned"
    /\ Len(profiles) = 2
    /\ profiles[1]["LinkedIn URL"] = profiles[2]["LinkedIn URL"]
    /\ Len(results) = 2
    /\ results[1]["Connection"] = NoInviteOption
    /\ results[2]["Connection"] = ConnectionRequestSent
    /\ Len(files[ScraperOut].rows) = 1
    /\ files[ScraperOut].rows[1]["Connection"] = NoInviteOption

\* the result of a stage: how run ended, with what exception, and the files
C22_ReturnedWithOutput ==
    /\ pc = "s_returned" => (exc = "none" /\ files[ScraperOut].exists)
    /\ pc = "done" => (exc = "none" /\ files[MessengerOut].exists)
    /\ pc = "aborted" => exc # "none"

C22_FinallyStep ==
    /\ pc = "s_finally" =>
          /\ exc' = exc /\ files' = files /\ results' = results
          /\ pc' = IF exc = "none" THEN "s_returned" ELSE "aborted"
          /\ sDriver' = "None" <=> sDriver = "None"
    /\ pc = "m_finally" =>
          /\ exc' = exc /\ files' = files /\ mResults' = mResults
          /\ pc' = IF exc = "none" THEN "done" ELSE "aborted"
          /\ mDriver' = "None" <=> mDriver = "None"

\* C22: a quit that raises changes nothing of what run gives back: run returns
\* normally, its file written, when its body ended without an exception, and lets the
\* exception of its body go on when it ended with one; without a driver quit is not
\* called.
C22_QuitFailureChangesNothing == []C22_ReturnedWithOutput /\ [][C22_FinallyStep]_vars

C22_Witness ==
    /\ pc = "done"
    /\ sDriver = "quitfailed"
    /\ mDriver = "quitfailed"
    /\ Len(files[MessengerOut].rows) = 2

====
